---------------------------- MODULE Spec2Model ----------------------------
(***************************************************************************)
(* A model of pytpc/simulation.py: the Particle class, lorentz, threshold, *)
(* find_next_state, track and simulate_elastic_scattering_track.           *)
(*                                                                         *)
(* Number model.  The code computes in floating point; the model computes  *)
(* the same formulas exactly on a lattice of values:                       *)
(*   - energies and masses are whole numbers of (model) MeV;               *)
(*   - a momentum or velocity component x is carried as its signed square  *)
(*     x*|x|, so that sqrt((E+m)^2 - m^2) and norms are exact; products    *)
(*     and quotients of signed squares are again signed squares;           *)
(*   - quantities that are divided (beta^2, gamma^2, velocity^2, tstep^2,  *)
(*     energy per nucleon) are exact rationals <<n, d>>, d = 0 standing    *)
(*     for an infinite value;                                              *)
(*   - angles are whole quarter turns, so cos and sin are exact;           *)
(*   - quantities that are added (position, time, the Lorentz impulse)     *)
(*     are whole numbers; Root rounds a signed square to one (floor).      *)
(* ndarrays that are mutated in place live in `heap` and are held by       *)
(* address, so two holders of one array see each other's writes.           *)
(***************************************************************************)
EXTENDS Integers, Sequences, FiniteSets, TLC

VARIABLES heap, particles, frame, sim, ghost

vars == <<heap, particles, frame, sim, ghost>>

None == "None"

\* no call of track, or of simulate_elastic_scattering_track, is under way
NoCall == [pc |-> "none"]

-----------------------------------------------------------------------------
(* Bounds of the model *)

\* largest energy per nucleon given to a constructed particle
MaxEnergy == 2
\* largest mass number
MaxMassNum == 2
\* largest excitation level
MaxLevel == 2
\* cap on the rows a track may record: more than any run that loses energy needs
MaxRows == MaxEnergy * MaxMassNum + 3
\* number of calls a program makes on one particle
MaxCalls == 2

-----------------------------------------------------------------------------
(* Physical constants (pytpc.constants, imported at simulation.py:16),     *)
(* in model units                                                          *)

\* proton rest energy
p_mc2 == 10
\* elementary charge
e_chg == 5
\* speed of light
c_lgt == 10
\* path length of one tracking step
pos_step == 10
\* the literal 1e6 of the MeV -> SI conversions
Mega == 4
\* the detector: 0 <= z <= 1, sqrt(x^2 + y^2) <= 0.275, in model length units
ZMax == 40
RMax == 11

-----------------------------------------------------------------------------
(* Exact arithmetic *)

Abs(x) == IF x < 0 THEN -x ELSE x

Sgn(x) == IF x < 0 THEN -1 ELSE IF x = 0 THEN 0 ELSE 1

RECURSIVE GCD(_, _)
GCD(a, b) == IF b = 0 THEN a ELSE GCD(b, a % b)

RECURSIVE ISqrtIn(_, _, _)
ISqrtIn(n, lo, hi) ==
    IF lo >= hi THEN lo
    ELSE LET mid == (lo + hi + 1) \div 2
         IN  IF mid * mid <= n THEN ISqrtIn(n, mid, hi) ELSE ISqrtIn(n, lo, mid - 1)

\* math.sqrt on a whole number, rounded down
ISqrt(n) == ISqrtIn(n, 0, IF n < 46340 THEN n ELSE 46340)

\* the signed square x*|x| of a whole number, and back (rounded toward zero)
Sq(x) == x * Abs(x)

Root(s) == Sgn(s) * ISqrt(Abs(s))

\* the rational n/d in lowest terms; d = 0 is an infinite value
R(n, d) ==
    IF d = 0 THEN <<Sgn(n), 0>>
    ELSE LET g == GCD(Abs(n), Abs(d))
         IN  <<Sgn(d) * (n \div g), Abs(d) \div g>>

RInt(n) == <<n, 1>>

RMul(a, b) == R(a[1] * b[1], a[2] * b[2])

RDiv(a, b) == R(a[1] * b[2], a[2] * b[1])

RAdd(a, b) == IF a[2] = 0 THEN a ELSE IF b[2] = 0 THEN b
              ELSE R(a[1] * b[2] + b[1] * a[2], a[2] * b[2])

RSub(a, b) == RAdd(a, <<-b[1], b[2]>>)

RLe(a, b) == a[1] * b[2] <= b[1] * a[2]

\* a rational rounded toward zero
RTrunc(a) == Sgn(a[1]) * (Abs(a[1]) \div a[2])

\* vectors are functions on 1..3
Vec(x, y, z) == <<x, y, z>>

Zero3 == <<0, 0, 0>>

VScale(a, v) == [i \in 1..3 |-> a * v[i]]

VAddPlain(u, v) == [i \in 1..3 |-> u[i] + v[i]]

\* |v|^2 of a vector of signed squares
NormSq(v) == Abs(v[1]) + Abs(v[2]) + Abs(v[3])

(* cos, sin and atan2 on quarter turns.  atan2 of two signed squares is    *)
(* exact on the axes and is rounded to the nearer axis elsewhere.          *)
Cos4(k) == CASE k % 4 = 0 -> 1  [] k % 4 = 1 -> 0 [] k % 4 = 2 -> -1 [] OTHER -> 0

Sin4(k) == CASE k % 4 = 0 -> 0  [] k % 4 = 1 -> 1 [] k % 4 = 2 -> 0 [] OTHER -> -1

Atan2(y, x) ==
    IF x = 0 /\ y = 0 THEN 0
    ELSE IF Abs(y) > Abs(x) THEN Sgn(y)
    ELSE IF x > 0 THEN 0
    ELSE IF y < 0 THEN -2 ELSE 2

\* the unit vector the code builds from (azimuth, polar)
Direction(azi, pol) ==
    Vec(Cos4(azi) * Sin4(pol), Sin4(azi) * Sin4(pol), Cos4(pol))

-----------------------------------------------------------------------------
(* The heap of position arrays *)

\* the smallest address not in use
Fresh(h) == CHOOSE a \in 0..Cardinality(DOMAIN h) :
                a \notin DOMAIN h /\ \A b \in 0..Cardinality(DOMAIN h) :
                                        b \notin DOMAIN h => a <= b

\* h with array a holding v
Store(h, a, v) == [b \in DOMAIN h \cup {a} |-> IF b = a THEN v ELSE h[b]]

\* h without the arrays nothing refers to any more
Collect(h, live) == [a \in DOMAIN h \cap live |-> h[a]]

-----------------------------------------------------------------------------
(* pytpc.relativity (not among the sources): beta and gamma, squared *)

\* rel.beta(en, mass)^2 = en (en + 2 mass) / (en + mass)^2
RelBeta2(en, mass) == R(en * (en + 2 * mass), (en + mass) * (en + mass))

\* rel.gamma(v)^2 = 1 / (1 - |v|^2 / c^2), v a vector of rational signed squares
RelGamma2(v) ==
    LET v2 == RAdd(RAdd(<<Abs(v[1][1]), v[1][2]>>, <<Abs(v[2][1]), v[2][2]>>),
                   <<Abs(v[3][1]), v[3][2]>>)
    IN  RDiv(RInt(c_lgt * c_lgt), RSub(RInt(c_lgt * c_lgt), v2))

\* MeVtokg = 1e6 e / c^2, squared
MeVtokg2 == R((Mega * e_chg) * (Mega * e_chg), c_lgt * c_lgt * c_lgt * c_lgt)

-----------------------------------------------------------------------------
(* class Particle.  A particle is a record of its attributes; position is  *)
(* the address of its ndarray, _momentum a vector of signed squares and    *)
(* _mom_mag the square of the magnitude.                                   *)

Particle(mass_num, charge_num, energy_per_particle, position, azimuth, polar, en_level) ==
    LET mass   == mass_num * p_mc2 + en_level
        energy == energy_per_particle * mass_num
        mag    == (energy + mass) * (energy + mass) - mass * mass
    IN  [ mass_num   |-> mass_num,
          _en_level  |-> en_level,
          _mass      |-> mass,
          charge_num |-> charge_num,
          charge     |-> charge_num * e_chg,
          position   |-> position,
          _energy    |-> energy,
          _mom_mag   |-> mag,
          _momentum  |-> VScale(mag, Direction(azimuth, polar)),
          _polar     |-> polar,
          _azimuth   |-> azimuth ]

\* momentum.setter
SetMomentum(p, new) ==
    LET mag == NormSq(new)
    IN  [p EXCEPT !._momentum = new,
                  !._mom_mag  = mag,
                  !._energy   = ISqrt(mag + p._mass * p._mass) - p._mass,
                  !._polar    = Atan2(Abs(new[1]) + Abs(new[2]), new[3]),
                  !._azimuth  = Atan2(new[2], new[1])]

\* the factor (1e6 e / c)^2 between a momentum in MeV/c and in kg.m/s
SIFactor2 == R((Mega * e_chg) * (Mega * e_chg), c_lgt * c_lgt)

\* momentum_si: a vector of rational signed squares
MomentumSI(p) == [i \in 1..3 |-> RMul(RInt(p._momentum[i]), SIFactor2)]

\* momentum_si.setter
SetMomentumSI(p, value) ==
    SetMomentum(p, [i \in 1..3 |-> RTrunc(RDiv(value[i], SIFactor2))])

\* azimuth.setter
SetAzimuth(p, new) ==
    [p EXCEPT !._azimuth  = new,
              !._momentum = VScale(p._mom_mag, Direction(new, p._polar))]

\* polar.setter
SetPolar(p, new) ==
    [p EXCEPT !._polar    = new,
              !._momentum = VScale(p._mom_mag, Direction(p._azimuth, new))]

\* math.sqrt in energy.setter raises ValueError on a negative argument
EnergyDefined(p, new) == (new + p._mass) * (new + p._mass) - p._mass * p._mass >= 0

\* energy.setter
SetEnergy(p, new) ==
    LET mag == (new + p._mass) * (new + p._mass) - p._mass * p._mass
    IN  [p EXCEPT !._mom_mag  = mag,
                  !._momentum = VScale(mag, Direction(p._azimuth, p._polar)),
                  !._energy   = ISqrt(mag + p._mass * p._mass) - p._mass]

\* energy_per_particle: energy / mass_num
EnergyPerParticle(p) == R(p._energy, p.mass_num)

\* energy_per_particle.setter
SetEnergyPerParticle(p, new) == SetEnergy(p, new * p.mass_num)

\* excite, when its energy.setter does not raise
Excite(p, level) ==
    LET q == SetEnergy([p EXCEPT !._en_level = level], p._energy - level)
    IN  [q EXCEPT !._mass = p.mass_num * p_mc2 + level]

\* excite, when its energy.setter raises: only the first assignment happened
ExciteRaised(p, level) == [p EXCEPT !._en_level = level]

\* beta^2
Beta2(p) == RelBeta2(p._energy, p._mass)

\* gamma^2; the ZeroDivisionError branch returns 1e100
Gamma2(p) ==
    LET d == RSub(RInt(1), Beta2(p))
    IN  IF d[1] = 0 THEN <<1, 0>> ELSE RDiv(RInt(1), d)

\* mass_kg^2
MassKg2(p) == RMul(RInt(p._mass * p._mass), MeVtokg2)

\* velocity: p_si / (gamma mass_kg), a vector of rational signed squares
Velocity(p) ==
    LET p_si == MomentumSI(p)
    IN  [i \in 1..3 |-> RDiv(p_si[i], RMul(Gamma2(p), MassKg2(p)))]

\* velocity.setter
SetVelocity(p, new) ==
    LET gam  == RelGamma2(new)
        p_si == [i \in 1..3 |-> RMul(RMul(gam, MassKg2(p)), new[i])]
    IN  SetMomentumSI(p, p_si)

\* state_vector: the values of a new array, position ++ momentum
StateVector(p, h) == [pos |-> h[p.position], mom |-> p._momentum]

\* state_vector.setter: position becomes the view new[0:3], held at address a
SetStateVector(p, a, mom) == SetMomentum([p EXCEPT !.position = a], mom)

\* what an observer reads off a particle
View(p, h) ==
    [ position |-> h[p.position], momentum |-> p._momentum, energy |-> p._energy,
      azimuth  |-> p._azimuth,    polar    |-> p._polar,    mass   |-> p._mass ]

-----------------------------------------------------------------------------
(* The calls a program makes on one Particle *)

MassNums == 1..MaxMassNum

Energies == 0..MaxEnergy

Levels == 0..MaxLevel

\* (azimuth, polar) pairs a caller passes, some outside the range of atan2
Angles == {<<0, 0>>, <<0, 1>>, <<3, 1>>, <<1, 3>>}

Azimuths == {0, 1, 3}

Polars == {0, 1, 3}

\* the momentum of a particle of this rest mass at a whole kinetic energy
LatticeMomentum(mass, en, azi, pol) ==
    VScale((en + mass) * (en + mass) - mass * mass, Direction(azi, pol))

\* its velocity
LatticeVelocity(mass_num, mass, en, azi, pol) ==
    Velocity(SetEnergy(Particle(mass_num, 1, 0, 0, azi, pol, mass - mass_num * p_mc2), en))

InitParticle ==
    /\ \E mn \in MassNums, epp \in Energies, ang \in Angles, lvl \in Levels :
          particles = [p |-> Particle(mn, 1, epp, 0, ang[1], ang[2], lvl)]
    /\ heap = Store(<<>>, 0, Vec(0, 0, 0))
    /\ frame = NoCall
    /\ sim = NoCall
    /\ ghost = [op |-> "init", pre |-> None, level |-> 0, raised |-> FALSE, calls |-> 0]

\* a program makes at most MaxCalls calls on its particle
CanCall == frame.pc = "none" /\ sim.pc = "none" /\ ghost.calls < MaxCalls

\* one call on the particle p, leaving q; the arrays no longer held are dropped
Called(op, level, q, h, raised) ==
    /\ particles' = [particles EXCEPT !.p = q]
    /\ heap' = Collect(h, {q.position})
    /\ ghost' = [op |-> op, pre |-> View(particles.p, heap), level |-> level,
                 raised |-> raised, calls |-> ghost.calls + 1]
    /\ UNCHANGED <<frame, sim>>

CallMomentum ==
    /\ CanCall
    /\ \E en \in Energies, ang \in Angles :
          LET new == LatticeMomentum(particles.p._mass, en, ang[1], ang[2])
          IN  Called("momentum", 0, SetMomentum(particles.p, new), heap, FALSE)

CallMomentumSI ==
    /\ CanCall
    /\ \E en \in Energies, ang \in Angles :
          LET new == LatticeMomentum(particles.p._mass, en, ang[1], ang[2])
              si  == [i \in 1..3 |-> RMul(RInt(new[i]), SIFactor2)]
          IN  Called("momentum_si", 0, SetMomentumSI(particles.p, si), heap, FALSE)

CallEnergy ==
    /\ CanCall
    /\ \E new \in Energies :
          Called("energy", 0, SetEnergy(particles.p, new), heap, FALSE)

CallEnergyPerParticle ==
    /\ CanCall
    /\ \E new \in Energies :
          Called("energy_per_particle", 0, SetEnergyPerParticle(particles.p, new), heap, FALSE)

CallAzimuth ==
    /\ CanCall
    /\ \E new \in Azimuths :
          Called("azimuth", 0, SetAzimuth(particles.p, new), heap, FALSE)

CallPolar ==
    /\ CanCall
    /\ \E new \in Polars :
          Called("polar", 0, SetPolar(particles.p, new), heap, FALSE)

CallVelocity ==
    /\ CanCall
    /\ \E en \in Energies, ang \in Angles :
          LET new == LatticeVelocity(particles.p.mass_num, particles.p._mass, en, ang[1], ang[2])
          IN  Called("velocity", 0, SetVelocity(particles.p, new), heap, FALSE)

\* p.state_vector = p.state_vector
CallStateVector ==
    /\ CanCall
    /\ LET sv == StateVector(particles.p, heap)
           a  == Fresh(heap)
       IN  Called("state_vector", 0, SetStateVector(particles.p, a, sv.mom),
                  Store(heap, a, sv.pos), FALSE)

CallExcite ==
    /\ CanCall
    /\ \E level \in Levels :
          IF EnergyDefined(particles.p, particles.p._energy - level)
          THEN Called("excite", level, Excite(particles.p, level), heap, FALSE)
          ELSE Called("excite", level, ExciteRaised(particles.p, level), heap, TRUE)

NextParticle ==
    \/ CallMomentum
    \/ CallMomentumSI
    \/ CallEnergy
    \/ CallEnergyPerParticle
    \/ CallAzimuth
    \/ CallPolar
    \/ CallVelocity
    \/ CallStateVector
    \/ CallExcite

SpecParticle == InitParticle /\ [][NextParticle]_vars

-----------------------------------------------------------------------------
(* lorentz, threshold, the gas, find_next_state *)

\* lorentz(vel, ef, bf, charge), on whole numbers
Lorentz(vel, ef, bf, charge) ==
    Vec(charge * (ef[1] + vel[2] * bf[3] - vel[3] * bf[2]),
        charge * (ef[2] + vel[3] * bf[1] - vel[1] * bf[3]),
        charge * (ef[3] + vel[1] * bf[2] - vel[2] * bf[1]))

\* threshold(value, threshmin), on rationals
Threshold(value, threshmin) ==
    IF ~RLe(threshmin, value) THEN threshmin ELSE value

(* gas.energy_loss(energy, mass_num, charge_num): the gas is the caller's;  *)
(* one of rate k loses k MeV over a path of pos_step, whatever the particle *)
EnergyLoss(gas, en, mass_num, charge_num) == R(gas.rate, pos_step)

\* a rational signed square rounded to a whole number
Plain(r) == Root(RTrunc(r))

\* the sum of two rational signed squares, as a signed square
SqAdd(a, b) ==
    IF b[1] = 0 THEN a ELSE IF a[1] = 0 THEN b ELSE RInt(Sq(Plain(a) + Plain(b)))

\* StepParticle with the two assignments in the other order
StepParticleEnergyFirst(particle, new_mom, en) ==
    SetMomentumSI(SetEnergy(particle, en), new_mom)

\* lines 310-312: the scratch copy takes the new momentum, then the new energy
StepParticle(particle, new_mom, en) ==
    SetEnergy(SetMomentumSI(particle, new_mom), en)

\* lines 314-315: position += new_vel * tstep, in place in the array at address a
Advance(h, a, new_vel, tstep) ==
    Store(h, a, VAddPlain(h[a], [i \in 1..3 |-> Plain(RMul(new_vel[i], tstep))]))

(* find_next_state(particle, gas, ef, bf, tstep), tstep squared.  Returns  *)
(* the new state vector, a new array whose position half is at address     *)
(* `pos`, and the heap the call leaves.                                    *)
FindNextState(particle, h, gas, ef, bf, tstep) ==
    LET en       == particle._energy
        mom      == MomentumSI(particle)
        vel      == Velocity(particle)
        charge   == particle.charge
        beta     == Beta2(particle)
        a        == Fresh(h)
        force    == Lorentz([i \in 1..3 |-> Plain(vel[i])], ef, bf, charge)
        new_mom  == [i \in 1..3 |-> SqAdd(mom[i], RMul(RInt(Sq(force[i])), tstep))]
        dpos     == Plain(RMul(RMul(tstep, beta), RInt(c_lgt * c_lgt)))
        stopping == EnergyLoss(gas, particle._energy, particle.mass_num, particle.charge_num)
        de       == Threshold(RMul(stopping, RInt(dpos)), RInt(0))
        new_en   == RTrunc(Threshold(RSub(RInt(en), de), RInt(0)))
        \* copy.copy(particle): the copy holds the same position array
        new_particle == StepParticle(particle, new_mom, new_en)
        h1       == Advance(h, new_particle.position, Velocity(new_particle), tstep)
    IN  IF beta[1] = 0
        THEN [pos |-> a, mom |-> particle._momentum, heap |-> Store(h, a, h[particle.position])]
        ELSE IF RLe(stopping, RInt(0)) \/ de[1] = 0
        THEN [pos |-> a, mom |-> Zero3, heap |-> Store(h, a, h[particle.position])]
        ELSE [pos |-> Fresh(h1), mom |-> new_particle._momentum,
              heap |-> Store(h1, Fresh(h1), h1[new_particle.position])]

-----------------------------------------------------------------------------
(* track *)

\* OutsideChamber without the radial test
OutsideChamberAxial(pos) == ~(0 <= pos[3] /\ pos[3] <= ZMax)

\* not(0 <= z <= 1) or sqrt(x^2 + y^2) > 0.275
OutsideChamber(pos) ==
    ~(0 <= pos[3] /\ pos[3] <= ZMax) \/ pos[1] * pos[1] + pos[2] * pos[2] > RMax * RMax

\* pos_step / (beta c), squared; infinite when beta is 0
TStep(particle) == RDiv(RInt(pos_step * pos_step),
                        RMul(Beta2(particle), RInt(c_lgt * c_lgt)))

\* a step duration as a time
Duration(tstep) == IF tstep[2] = 0 THEN tstep ELSE RInt(Plain(tstep))

\* lines 349-367: the lists hold the initial state, by reference for pos
TrackFrame(who, particle, gas, ef, bf, final_energy) ==
    [ pc |-> "loop", who |-> who, gas |-> gas, ef |-> ef, bf |-> bf,
      final_energy |-> final_energy,
      pos  |-> <<particle.position>>,
      mom  |-> <<particle._momentum>>,
      time |-> <<RInt(0)>>,
      en   |-> <<EnergyPerParticle(particle)>>,
      de   |-> <<RInt(0)>>,
      azi  |-> <<particle._azimuth>>,
      pol  |-> <<particle._polar>>,
      current_time |-> RInt(0),
      done |-> FALSE, tstep |-> None, state |-> None, tracks |-> None ]

\* the arrays something still refers to
Live(ps, f) ==
    {ps[k].position : k \in DOMAIN ps}
      \cup (IF f.pc \in {"loop", "called"} THEN {f.pos[k] : k \in 1..Len(f.pos)} ELSE {})
      \cup (IF f.pc = "called" THEN {f.state.pos} ELSE {})

InLoop == frame.pc = "loop" /\ ~frame.done /\ Len(frame.pos) < MaxRows

\* what the ghost keeps of a row when it is recorded
RowNow(f, h, k) ==
    [ pos |-> h[f.pos[k]], mom |-> f.mom[k], time |-> f.time[k], en |-> f.en[k],
      de  |-> f.de[k], azi |-> f.azi[k], pol |-> f.pol[k] ]

\* line 369 raises ZeroDivisionError when beta is 0 and the division is Python's
TrackRaises ==
    /\ InLoop
    /\ Beta2(particles[frame.who])[1] = 0
    /\ frame' = [frame EXCEPT !.pc = "raised"]
    /\ heap' = Collect(heap, Live(particles, frame'))
    /\ UNCHANGED <<particles, sim, ghost>>

(* lines 369-370: the step duration (infinite for beta = 0 when the         *)
(* division is numpy's), and the call of find_next_state                    *)
TrackFindNextState ==
    /\ InLoop
    /\ LET particle == particles[frame.who]
           tstep    == TStep(particle)
           next     == FindNextState(particle, heap, frame.gas, frame.ef, frame.bf, tstep)
       IN  /\ frame' = [frame EXCEPT !.pc = "called", !.tstep = tstep,
                                     !.state = [pos |-> next.pos, mom |-> next.mom]]
           /\ heap' = next.heap
           /\ ghost' = [ghost EXCEPT !.pre = View(particle, heap)]
    /\ UNCHANGED <<particles, sim>>

\* lines 371-388: the state is written back, recorded, and the run may be done
TrackRecord ==
    /\ frame.pc = "called"
    /\ LET particle == SetStateVector(particles[frame.who], frame.state.pos, frame.state.mom)
           position == heap[particle.position]
           en       == Append(frame.en, EnergyPerParticle(particle))
           current_time == RAdd(frame.current_time, Duration(frame.tstep))
           f == [frame EXCEPT
                   !.pc   = "loop",
                   !.state = None,
                   !.done = particle._energy <= frame.final_energy \/ OutsideChamber(position),
                   !.pos  = Append(@, particle.position),
                   !.mom  = Append(@, particle._momentum),
                   !.en   = en,
                   !.de   = Append(@, RSub(en[Len(en) - 1], en[Len(en)])),
                   !.azi  = Append(@, particle._azimuth),
                   !.pol  = Append(@, particle._polar),
                   !.current_time = current_time,
                   !.time = Append(@, current_time)]
       IN  /\ particles' = [particles EXCEPT ![frame.who] = particle]
           /\ frame' = f
           /\ heap' = Collect(heap, Live(particles', f))
           /\ ghost' = [ghost EXCEPT !.recorded = Append(@, RowNow(f, heap, Len(f.pos)))]
    /\ UNCHANGED sim

\* lines 390-397: the table copies the values the lists hold now
TrackReturn ==
    /\ frame.pc = "loop" /\ frame.done
    /\ frame' = [frame EXCEPT !.pc = "returned",
                              !.tracks = [k \in 1..Len(frame.pos) |-> RowNow(frame, heap, k)]]
    /\ heap' = Collect(heap, Live(particles, frame'))
    /\ ghost' = [ghost EXCEPT !.tables = Append(@, frame'.tracks)]
    /\ UNCHANGED <<particles, sim>>

\* the inputs of a track run
TrackAngles == {<<0, 0>>, <<0, 1>>, <<3, 1>>}

TrackPositions == {Vec(0, 0, 0), Vec(10, 0, 35)}

Gases == {[rate |-> k] : k \in 0..2}

EFields == {Zero3, Vec(0, 0, 2)}

BFields == {Zero3, Vec(0, 0, 1)}

FinalEnergies == {-1, 0, 1}

\* the directions of a projectile, and the polar angles of the outgoing particles
ScatterAngles == {<<0, 0>>, <<0, 1>>}

ScatterPolars == {0, 1}

TrackGhost(particle, h) ==
    [ initial |-> View(particle, h), pre |-> None, tables |-> <<>>,
      recorded |-> <<[ pos |-> h[particle.position], mom |-> particle._momentum,
                       time |-> RInt(0), en |-> EnergyPerParticle(particle),
                       de |-> RInt(0), azi |-> particle._azimuth, pol |-> particle._polar ]>> ]

InitTrack ==
    /\ \E mn \in MassNums, epp \in Energies, position \in TrackPositions, ang \in TrackAngles,
          gas \in Gases, ef \in EFields, bf \in BFields, final_energy \in FinalEnergies :
          LET particle == Particle(mn, 1, epp, 0, ang[1], ang[2], 0)
          IN  /\ particles = [p |-> particle]
              /\ heap = Store(<<>>, 0, position)
              /\ frame = TrackFrame("p", particle, gas, ef, bf, final_energy)
              /\ ghost = TrackGhost(particle, heap)
    /\ sim = NoCall

NextTrack ==
    \/ TrackRaises
    \/ TrackFindNextState
    \/ TrackRecord
    \/ TrackReturn

SpecTrack == InitTrack /\ [][NextTrack]_vars

-----------------------------------------------------------------------------
(* simulate_elastic_scattering_track *)

\* CheckPreconditions without the check of the target
CheckPreconditionsNoTarget(proj, target) ==
    IF proj._energy = 0 THEN "ValueError" ELSE "ok"

\* lines 450-453
CheckPreconditions(proj, target) ==
    IF proj._energy = 0 THEN "ValueError"
    ELSE IF target._energy > 0 THEN "NotImplementedError"
    ELSE "ok"

\* proj_track.time.max()
RECURSIVE MaxTime(_)
MaxTime(tracks) ==
    IF Len(tracks) = 1 THEN tracks[1].time
    ELSE LET m == MaxTime(Tail(tracks))
         IN  IF RLe(m, tracks[1].time) THEN tracks[1].time ELSE m

\* ShiftTime with the shift forgotten
ShiftTimeForgotten(tracks, reaction_time) == tracks

\* track.time += reaction_time
ShiftTime(tracks, reaction_time) ==
    [k \in 1..Len(tracks) |-> [tracks[k] EXCEPT !.time = RAdd(@, reaction_time)]]

\* pd.concat((proj_track, ejec_track, recoil_track), ignore_index=True)
Concat(proj_track, ejec_track, recoil_track) == proj_track \o ejec_track \o recoil_track

\* an angle of the returned pair: None, or a value
NoAngle == <<>>
Angle(a) == <<a>>

(* rel.elastic_scatter (not among the sources): the two outgoing particles, *)
(* new Particles at the projectile's position that share its kinetic        *)
(* energy; cm_angle decides the share `er` of the recoil and the polar      *)
(* angles `pe` and `pr`, which are also the true angles                     *)
ElasticScatter(proj, target, azimuth, er, pe, pr, a1, a2) ==
    [ ejec   |-> SetEnergy(Particle(proj.mass_num, proj.charge_num, 0, a1, azimuth, pe, 0),
                           proj._energy - er),
      recoil |-> SetEnergy(Particle(target.mass_num, target.charge_num, 0, a2, azimuth + 2, pr, 0),
                           er),
      true_angles |-> <<Angle(pe), Angle(pr)>> ]

\* a call of track(particle, gas, ef, bf, final_energy) starts
Started(who, particle, h, final_energy) ==
    /\ frame' = TrackFrame(who, particle, sim.gas, sim.ef, sim.bf, final_energy)
    /\ ghost' = [ghost EXCEPT !.initial = View(particle, h), !.pre = None,
                              !.recorded = TrackGhost(particle, h).recorded]

\* lines 450-456: the preconditions, then the projectile's track starts
SimCheck ==
    /\ sim.pc = "check"
    /\ LET verdict == CheckPreconditions(particles.proj, particles.target)
       IN  IF verdict = "ok"
           THEN /\ sim' = [sim EXCEPT !.pc = "proj"]
                /\ Started("proj", particles.proj, heap, sim.interact_energy)
           ELSE /\ sim' = [sim EXCEPT !.pc = "raised", !.error = verdict]
                /\ UNCHANGED <<frame, ghost>>
    /\ UNCHANGED <<heap, particles>>

\* lines 457-460, 474-477: the projectile left the chamber
SimLeftChamber ==
    /\ sim.pc = "proj" /\ frame.pc = "returned"
    /\ OutsideChamber(heap[particles.proj.position])
    /\ sim' = [sim EXCEPT !.pc = "returned", !.proj_track = frame.tracks,
                          !.fulltrack = frame.tracks, !.true_angles = <<NoAngle, NoAngle>>]
    /\ frame' = NoCall
    /\ UNCHANGED <<heap, particles, ghost>>

\* lines 461-467: the reaction, then the ejectile's track starts
SimReact ==
    /\ sim.pc = "proj" /\ frame.pc = "returned"
    /\ ~OutsideChamber(heap[particles.proj.position])
    /\ \E er \in 0..particles.proj._energy, pe \in ScatterPolars, pr \in ScatterPolars :
          LET a1  == Fresh(heap)
              h1  == Store(heap, a1, heap[particles.proj.position])
              a2  == Fresh(h1)
              h2  == Store(h1, a2, heap[particles.proj.position])
              out == ElasticScatter(particles.proj, particles.target, sim.azimuth,
                                    er, pe, pr, a1, a2)
          IN  /\ particles' = [k \in {"proj", "target", "ejec", "recoil"} |->
                                  IF k = "ejec" THEN out.ejec
                                  ELSE IF k = "recoil" THEN out.recoil ELSE particles[k]]
              /\ heap' = h2
              /\ sim' = [sim EXCEPT !.pc = "ejec", !.proj_track = frame.tracks,
                                    !.reaction_time = MaxTime(frame.tracks),
                                    !.true_angles = out.true_angles,
                                    !.scatter_calls = @ + 1]
              /\ Started("ejec", out.ejec, h2, 0)

\* lines 468-469: the ejectile's times are shifted, the recoil's track starts
SimEjectileTracked ==
    /\ sim.pc = "ejec" /\ frame.pc = "returned"
    /\ sim' = [sim EXCEPT !.pc = "recoil",
                          !.ejec_track = ShiftTime(frame.tracks, sim.reaction_time)]
    /\ Started("recoil", particles.recoil, heap, 0)
    /\ UNCHANGED <<heap, particles>>

\* lines 470-477: the recoil's times are shifted and the three tracks returned
SimRecoilTracked ==
    /\ sim.pc = "recoil" /\ frame.pc = "returned"
    /\ LET recoil_track == ShiftTime(frame.tracks, sim.reaction_time)
       IN  sim' = [sim EXCEPT !.pc = "returned", !.recoil_track = recoil_track,
                              !.fulltrack = Concat(sim.proj_track, sim.ejec_track, recoil_track)]
    /\ frame' = NoCall
    /\ UNCHANGED <<heap, particles, ghost>>

\* an exception of track leaves simulate_elastic_scattering_track
SimTrackRaised ==
    /\ sim.pc \in {"proj", "ejec", "recoil"} /\ frame.pc = "raised"
    /\ sim' = [sim EXCEPT !.pc = "raised", !.error = "ZeroDivisionError"]
    /\ frame' = NoCall
    /\ UNCHANGED <<heap, particles, ghost>>

\* the inputs of a simulated event
InteractEnergies == {0, 1}

InitScatter ==
    /\ \E mn \in MassNums, epp \in Energies, position \in TrackPositions, ang \in ScatterAngles,
          tepp \in 0..1, gas \in Gases, ef \in EFields,
          interact_energy \in InteractEnergies, ret_angles \in BOOLEAN :
          LET proj   == Particle(mn, 1, epp, 0, ang[1], ang[2], 0)
              target == Particle(1, 1, tepp, 1, 0, 0, 0)
          IN  /\ particles = [proj |-> proj, target |-> target]
              /\ heap = Store(Store(<<>>, 0, position), 1, position)
              /\ sim = [ pc |-> "check", gas |-> gas, ef |-> ef, bf |-> Zero3,
                         interact_energy |-> interact_energy, azimuth |-> 0,
                         ret_angles |-> ret_angles, proj_track |-> <<>>,
                         reaction_time |-> RInt(0), ejec_track |-> <<>>,
                         recoil_track |-> <<>>, fulltrack |-> <<>>,
                         true_angles |-> <<>>, error |-> None, scatter_calls |-> 0 ]
              /\ ghost = [ initial |-> None, pre |-> None, recorded |-> <<>>, tables |-> <<>>,
                           proj |-> View(proj, heap), target |-> View(target, heap) ]
    /\ frame = NoCall

NextScatter ==
    \/ SimCheck
    \/ SimLeftChamber
    \/ SimReact
    \/ SimEjectileTracked
    \/ SimRecoilTracked
    \/ SimTrackRaised
    \/ TrackRaises
    \/ TrackFindNextState
    \/ TrackRecord
    \/ TrackReturn

SpecScatter == InitScatter /\ [][NextScatter]_vars

-----------------------------------------------------------------------------
(* Every program the model covers *)

Init == InitParticle \/ InitTrack \/ InitScatter

Next == NextParticle \/ NextTrack \/ NextScatter

Spec == Init /\ [][Next]_vars

-----------------------------------------------------------------------------
(* The claims *)

\* the rows the lists of a running track hold now
RowsNow == [k \in 1..Len(frame.pos) |-> RowNow(frame, heap, k)]

\* the sum of a column of rationals
RECURSIVE SumOf(_)
SumOf(column) == IF column = <<>> THEN RInt(0) ELSE RAdd(Head(column), SumOf(Tail(column)))

(* C1: find_next_state leaves the particle passed to it as it was: its      *)
(* position, momentum, energy, azimuth and polar angle after the call are   *)
(* those before the call.                                                   *)
C1_InputUnchanged ==
    frame.pc = "called" => View(particles[frame.who], heap) = ghost.pre

(* C2: the table of track has one row per recorded state, row 0 holding the *)
(* state the particle had when track was called (time 0, energy lost 0),    *)
(* and no later step changes a row that was recorded.                       *)
C2_RowsAsRecorded ==
    LET rows == IF frame.pc = "returned" THEN frame.tracks ELSE RowsNow
    IN  frame.pc \in {"loop", "called", "returned"} =>
          /\ Len(rows) = Len(ghost.recorded)
          /\ rows[1].pos = ghost.initial.position
          /\ rows[1].mom = ghost.initial.momentum
          /\ rows[1].time = RInt(0) /\ rows[1].de = RInt(0)
          /\ \A k \in 1..Len(rows) : rows[k] = ghost.recorded[k]

(* C3: after any sequence of setter calls the mass-shell relation holds:    *)
(* (kinetic energy + mass)^2 = |momentum|^2 + mass^2.                       *)
C3_MassShell ==
    \A k \in DOMAIN particles :
        LET p == particles[k]
        IN  (p._energy + p._mass) * (p._energy + p._mass)
              = NormSq(p._momentum) + p._mass * p._mass

(* C4: excite(level) keeps kinetic energy + rest mass constant, the kinetic *)
(* energy going down and the rest mass up by level, on every call; and no   *)
(* other call changes the rest mass.                                        *)
C4_ExciteKeepsTotalEnergy ==
    sim.pc = "none" /\ frame.pc = "none" =>
      /\ ghost.op = "excite" /\ ~ghost.raised =>
            /\ particles.p._energy + particles.p._mass = ghost.pre.energy + ghost.pre.mass
            /\ particles.p._energy = ghost.pre.energy - ghost.level
            /\ particles.p._mass = ghost.pre.mass + ghost.level
      /\ ghost.op \notin {"init", "excite"} => particles.p._mass = ghost.pre.mass

(* C5: every energy-lost value of a track is >= 0 (the energy per nucleon   *)
(* never goes up from one row to the next, whatever the fields), and in a   *)
(* returned table the energy-lost column sums to the first energy per       *)
(* nucleon minus the last.                                                  *)
C5_EnergyLost ==
    /\ frame.pc \in {"loop", "called"} =>
          \A k \in 1..Len(frame.de) :
              /\ RLe(RInt(0), frame.de[k])
              /\ k > 1 => RLe(frame.en[k], frame.en[k - 1])
    /\ frame.pc = "returned" =>
          LET rows == frame.tracks
          IN  /\ \A k \in 1..Len(rows) : RLe(RInt(0), rows[k].de)
              /\ SumOf([k \in 1..Len(rows) |-> rows[k].de])
                   = RSub(rows[1].en, rows[Len(rows)].en)

\* C5's case: a run in an electric field that ended by the energy floor after two steps
C5_Witness ==
    /\ frame.pc = "returned" /\ sim.pc = "none"
    /\ frame.ef # Zero3
    /\ Len(frame.tracks) >= 3
    /\ particles.p._energy <= frame.final_energy
    /\ ~OutsideChamber(heap[particles.p.position])
    /\ frame.tracks[2].de[1] > 0

\* a particle of positive energy tracked through a gas of positive stopping power
LosingRun ==
    /\ sim.pc = "none" /\ frame.pc \in {"loop", "called", "raised", "returned"}
    /\ frame.gas.rate > 0
    /\ ghost.initial.energy > 0

\* the steps after which such a particle has no energy left
StepBound == (ghost.initial.energy + frame.gas.rate - 1) \div frame.gas.rate

(* C6: a track of a particle of positive energy through a gas of positive   *)
(* stopping power ends after a bounded number of steps by the loop setting  *)
(* done: it does not raise, and once the steps that use up the energy have  *)
(* run, done is set.                                                        *)
C6_LoopSetsDone ==
    LosingRun =>
      /\ frame.pc # "raised"
      /\ frame.pc = "loop" /\ Len(frame.pos) - 1 >= StepBound => frame.done

\* the three segments of a returned table
Reacted == sim.pc = "returned" /\ sim.scatter_calls = 1

NonDecreasing(tracks) ==
    \A k \in 1..(Len(tracks) - 1) : RLe(tracks[k].time, tracks[k + 1].time)

(* C7, as stated: in the table of simulate_elastic_scattering_track the     *)
(* time never decreases from a row to the next, within and across the       *)
(* segments.                                                                *)
C7_TimeNonDecreasing ==
    sim.pc = "returned" => NonDecreasing(sim.fulltrack)

(* C7, amended: the time never decreases within each of the three segments  *)
(* nor from the projectile's last row to the ejectile's first; the ejectile *)
(* and the recoil segment both start at the interaction time, the           *)
(* projectile's last time.                                                  *)
C7_TimeNonDecreasingPerSegment ==
    /\ sim.pc = "returned" /\ ~Reacted => NonDecreasing(sim.fulltrack)
    /\ Reacted =>
          LET np   == Len(ghost.tables[1])
              ne   == Len(ghost.tables[2])
              nr   == Len(ghost.tables[3])
              full == sim.fulltrack
          IN  /\ Len(full) = np + ne + nr
              /\ NonDecreasing(SubSeq(full, 1, np + ne))
              /\ NonDecreasing(SubSeq(full, np + ne + 1, np + ne + nr))
              /\ full[np + 1].time = full[np].time
              /\ full[np + ne + 1].time = full[np].time

\* C7's case: a reaction whose ejectile took time, so that the recoil starts earlier
C7_Witness ==
    /\ Reacted
    /\ LET np == Len(ghost.tables[1])
           ne == Len(ghost.tables[2])
       IN  /\ ne >= 2
           /\ ~RLe(sim.fulltrack[np + ne].time, sim.fulltrack[np + ne + 1].time)

\* nothing was tracked and the two particles are as they were passed
Untouched ==
    /\ frame = NoCall /\ ghost.recorded = <<>> /\ ghost.tables = <<>>
    /\ View(particles.proj, heap) = ghost.proj
    /\ View(particles.target, heap) = ghost.target

(* C8: simulate_elastic_scattering_track rejects a projectile of zero       *)
(* energy with ValueError and a target of nonzero energy with               *)
(* NotImplementedError, before any step of track and with both particles    *)
(* unchanged.                                                               *)
C8_PreconditionsRejected ==
    sim.pc \notin {"none", "check"} =>
      /\ ghost.proj.energy = 0 =>
            sim.pc = "raised" /\ sim.error = "ValueError" /\ Untouched
      /\ ghost.proj.energy # 0 /\ ghost.target.energy # 0 =>
            sim.pc = "raised" /\ sim.error = "NotImplementedError" /\ Untouched

\* C8's case: a moving target was rejected
C8_Witness ==
    /\ sim.pc = "raised" /\ sim.error = "NotImplementedError"
    /\ ghost.target.energy > 0

\* a table without its time column
SansTime(tracks) == [k \in 1..Len(tracks) |-> [tracks[k] EXCEPT !.time = RInt(0)]]

(* C9: simulate_elastic_scattering_track returns the projectile's track     *)
(* alone, with true angles (None, None), exactly when the projectile ended  *)
(* its track outside the chamber (z outside [0, 1] or radius above 0.275),  *)
(* whatever its energy; otherwise it returns the rows of the projectile's,  *)
(* the ejectile's and the recoil's track in that order, and elastic_scatter *)
(* was called once.                                                         *)
C9_ResultBySegments ==
    sim.pc = "returned" =>
      LET pos     == heap[particles.proj.position]
          outside == pos[3] < 0 \/ pos[3] > ZMax
                       \/ pos[1] * pos[1] + pos[2] * pos[2] > RMax * RMax
      IN  /\ outside =>
                /\ sim.fulltrack = ghost.tables[1]
                /\ Len(ghost.tables) = 1
                /\ sim.true_angles = <<NoAngle, NoAngle>>
                /\ sim.scatter_calls = 0
          /\ ~outside =>
                /\ Len(ghost.tables) = 3
                /\ SansTime(sim.fulltrack)
                     = SansTime(ghost.tables[1] \o ghost.tables[2] \o ghost.tables[3])
                /\ sim.true_angles[1] # NoAngle /\ sim.true_angles[2] # NoAngle
                /\ sim.scatter_calls = 1

\* C9's case: the projectile reached the interaction energy on the step that took it out
C9_Witness ==
    /\ sim.pc = "returned"
    /\ OutsideChamber(heap[particles.proj.position])
    /\ particles.proj._energy <= sim.interact_energy
    /\ particles.proj._energy > 0
    /\ sim.fulltrack = ghost.tables[1]

(* C10: p.state_vector = p.state_vector leaves the particle as it was:      *)
(* position, momentum, energy, azimuth and polar angle are unchanged.       *)
C10_StateVectorRoundTrip ==
    sim.pc = "none" /\ frame.pc = "none" /\ ghost.op = "state_vector" =>
      View(particles.p, heap) = ghost.pre

\* a track run, not one started by simulate_elastic_scattering_track
TrackRun == sim.pc = "none" /\ frame.pc \in {"loop", "called", "raised", "returned"}

(* C11: a particle of zero kinetic energy passed to track ends the run      *)
(* after the first step: the division pos_step / (beta c) does not abort    *)
(* it, done is set once the first step is recorded, and the table returned  *)
(* has exactly two rows, the second with momentum zero and the position of  *)
(* the first.                                                               *)
C11_StoppedParticleTracked ==
    TrackRun /\ ghost.initial.energy = 0 =>
      /\ frame.pc # "raised"
      /\ frame.pc = "loop" /\ Len(frame.pos) >= 2 => frame.done
      /\ frame.pc = "returned" =>
            /\ Len(frame.tracks) = 2
            /\ frame.tracks[2].mom = Zero3
            /\ frame.tracks[2].pos = ghost.initial.position
            /\ frame.tracks[1].pos = ghost.initial.position

\* a moving particle tracked inside the chamber through a gas of zero stopping power
LosslessRun ==
    /\ TrackRun
    /\ frame.gas.rate = 0
    /\ ghost.initial.energy > 0
    /\ ~OutsideChamber(ghost.initial.position)

(* C12: with zero stopping power and the particle inside the chamber, track *)
(* ends for every final_energy: no iteration of the loop aborts the run,    *)
(* and none leaves the particle as it was with done still unset (such an    *)
(* iteration repeats for ever).                                             *)
C12_LosslessRunEnds ==
    [][LosslessRun =>
         /\ frame'.pc # "raised"
         /\ frame.pc = "called" /\ frame'.pc = "loop" =>
               \/ frame'.done
               \/ View(particles'[frame.who], heap') # ghost.pre]_vars

=============================================================================
